---- MODULE Spec2Model ----
(***************************************************************************)
(* Model of src/main.py: the rules engine (rule_matches, score_rule,       *)
(* find_best_rule) and the KB-driven wizard (init_state, reset_wizard,     *)
(* render_question, build_pages_from_kb, facts_for_evaluation, wizard,     *)
(* app).                                                                   *)
(*                                                                         *)
(* JSON / Python values are encoded as strings: None is "null", True is    *)
(* "true", False is "false", every other string is a text value.           *)
(* An optional dictionary entry is a sequence: <<>> when the key is        *)
(* missing, <<v>> when it is present with value v.                         *)
(***************************************************************************)
EXTENDS Integers, Sequences, FiniteSets, TLC

VARIABLES kb, step, facts, last_result, ui, keyIdentity,
          evaluated, decision, asked, answered, cleared, lastEvent

vars == <<kb, step, facts, last_result, ui, keyIdentity,
          evaluated, decision, asked, answered, cleared, lastEvent>>

\* ------------------------------------------------------------------------
\* Bounds
\* ------------------------------------------------------------------------
MaxRules == 2

\* Most attributes of a KB whose pages are built on their own, and most
\* attributes of such a KB when they may carry page entries.
MaxAttrs == 7

MaxHinted == 3

\* ------------------------------------------------------------------------
\* Values
\* ------------------------------------------------------------------------
None == "null"
PyTrue == "true"
PyFalse == "false"

\* Python truthiness of a value (None, False and "" are falsy).
Truthy(v) == v \notin {None, PyFalse, ""}

\* Python str(v).
Str(v) == CASE v = None -> "None"
            [] v = PyTrue -> "True"
            [] v = PyFalse -> "False"
            [] OTHER -> v

\* dict.get(key) on a mapping: None when the key is missing.
DictGet(d, k) == IF k \in DOMAIN d THEN d[k] ELSE None

\* ------------------------------------------------------------------------
\* Rules engine
\* ------------------------------------------------------------------------

\* rule_matches as a bug would have it: any one matching condition suffices.
rule_matches_any(conditions, fs) ==
    \/ DOMAIN conditions = {}
    \/ \E attr \in DOMAIN conditions : DictGet(fs, attr) = conditions[attr]

rule_matches(conditions, fs) ==
    \A attr \in DOMAIN conditions : DictGet(fs, attr) = conditions[attr]

\* score_rule as a bug would have it: priority first, specificity second.
score_rule_swapped(rule) ==
    <<IF rule.priority = <<>> THEN 0 ELSE rule.priority[1],
      Cardinality(DOMAIN rule.conditions)>>

score_rule(rule) ==
    <<Cardinality(DOMAIN rule.conditions),
      IF rule.priority = <<>> THEN 0 ELSE rule.priority[1]>>

\* The test s > best_score as a bug would have it: >= keeps the last
\* maximum, not the first.
ScoreGreaterOrEqual(s, t) == s[1] > t[1] \/ (s[1] = t[1] /\ s[2] >= t[2])

\* s > best_score: Python's comparison of two pairs of integers.
ScoreBetter(s, t) == s[1] > t[1] \/ (s[1] = t[1] /\ s[2] > t[2])

\* Initial best_score as a bug would have it.
InitialBestScoreZero == <<0, 0>>

InitialBestScore == <<-1, -1>>

\* The loop of find_best_rule from rule i on; best is 0 for "best_rule is None",
\* otherwise the index of best_rule in the list.
RECURSIVE ScanRules(_, _, _, _, _)
ScanRules(rules, fs, i, best, best_score) ==
    IF i > Len(rules) THEN best
    ELSE IF rule_matches(rules[i].conditions, fs)
              /\ ScoreBetter(score_rule(rules[i]), best_score)
         THEN ScanRules(rules, fs, i + 1, i, score_rule(rules[i]))
         ELSE ScanRules(rules, fs, i + 1, best, best_score)

\* The literal default as a bug would have it: an empty decision.
FallbackPayloadEmpty == [id |-> None, classification |-> None]

FallbackPayload == [id |-> "default", classification |-> "needs_review"]

\* A KB document is [attributes, derivation_rules, rules, default], each an
\* optional top-level entry. kb.get(field, empty):
KbGet(k, field) == IF k[field] = <<>> THEN <<>> ELSE k[field][1]

\* The returned dictionary, with where it was taken from: "rules" with the
\* index of the rule, "default" for the KB's entry, "fallback" for the literal.
find_best_rule(k, fs) ==
    LET rules == KbGet(k, "rules")
        best == ScanRules(rules, fs, 1, 0, InitialBestScore)
    IN  IF best = 0
        THEN IF k.default = <<>>
             THEN [from |-> "fallback", index |-> 0, payload |-> FallbackPayload]
             ELSE [from |-> "default", index |-> 0, payload |-> k.default[1]]
        ELSE [from |-> "rules", index |-> best,
              payload |-> [id |-> rules[best].id,
                           classification |-> rules[best].classification]]

\* ------------------------------------------------------------------------
\* Knowledge-base documents
\* ------------------------------------------------------------------------
\* attributes is an ordered mapping: a sequence of [name, def]. In a def,
\* type, question and page are optional entries; options is the list (empty
\* when missing); depends_on is [form, items] with form "absent", "dict"
\* (items are <<key, expected>>), "list" (items are conditions
\* [isdict, key, equals], key and equals optional) or "other".

NoDependsOn == [form |-> "absent", items |-> <<>>]

DependsOnDict(items) == [form |-> "dict", items |-> items]

DependsOnList(items) == [form |-> "list", items |-> items]

KeyEquals(k, v) == [isdict |-> TRUE, key |-> <<k>>, equals |-> <<v>>]

EmptyDef == [type |-> <<>>, question |-> <<>>, options |-> <<>>,
             depends_on |-> NoDependsOn, page |-> <<>>]

Attr(name, type, question, options, depends_on, page) ==
    [name |-> name,
     def |-> [type |-> type, question |-> question, options |-> options,
              depends_on |-> depends_on, page |-> page]]

Rule(id, priority, conditions, classification) ==
    [id |-> id, priority |-> priority, conditions |-> conditions,
     classification |-> classification]

Names(attributes) == [i \in 1..Len(attributes) |-> attributes[i].name]

NameSet(attributes) == {attributes[i].name : i \in 1..Len(attributes)}

\* attributes.get(attr_name, {})
AttrDef(attributes, attr_name) ==
    IF attr_name \in NameSet(attributes)
    THEN attributes[CHOOSE i \in 1..Len(attributes) :
                        attributes[i].name = attr_name].def
    ELSE EmptyDef

\* ------------------------------------------------------------------------
\* Session state helpers
\* ------------------------------------------------------------------------

\* st.session_state before the first script run: no entry at all.
NewSession == [step |-> <<>>, facts |-> <<>>, last_result |-> <<>>]

init_state(attributes, s) ==
    LET old == IF s.facts = <<>> THEN [a \in {} |-> None] ELSE s.facts[1]
    IN  [step |-> IF s.step = <<>> THEN 0 ELSE s.step[1],
         facts |-> [a \in DOMAIN old \cup NameSet(attributes) |->
                        IF a \in DOMAIN old THEN old[a] ELSE None],
         last_result |-> IF s.last_result = <<>> THEN None
                         ELSE s.last_result[1]]

\* reset_wizard as a bug would have it: the step is left where it is.
reset_wizard_keep_step(attributes, s) ==
    [step |-> s.step,
     facts |-> [k \in NameSet(attributes) |-> None],
     last_result |-> None]

reset_wizard(attributes, s) ==
    [step |-> 0,
     facts |-> [k \in NameSet(attributes) |-> None],
     last_result |-> None]

set_fact(fs, attr_name, value) == [fs EXCEPT ![attr_name] = value]

get_fact(fs, attr_name) == DictGet(fs, attr_name)

_depends_on_satisfied(depends_on, fs) ==
    IF depends_on.form = "absent"
       \/ (depends_on.form \in {"dict", "list"} /\ depends_on.items = <<>>)
    THEN TRUE
    ELSE IF depends_on.form = "dict"
    THEN \A i \in 1..Len(depends_on.items) :
            LET k == depends_on.items[i][1]
                expected == depends_on.items[i][2]
            IN  k \in DOMAIN fs /\ DictGet(fs, k) = expected
    ELSE IF depends_on.form = "list"
    THEN \A i \in 1..Len(depends_on.items) :
            LET cond == depends_on.items[i]
                k == IF cond.key = <<>> THEN None ELSE cond.key[1]
                expected == IF cond.equals = <<>> THEN None ELSE cond.equals[1]
            IN  cond.isdict /\ Truthy(k) /\ k \in DOMAIN fs
                /\ DictGet(fs, k) = expected
    ELSE FALSE

should_show(attr_name, attributes, fs) ==
    _depends_on_satisfied(AttrDef(attributes, attr_name).depends_on, fs)

\* ------------------------------------------------------------------------
\* Pages
\* ------------------------------------------------------------------------
NumPages == 3

OtherPagesBucket == 999

Min(a, b) == IF a < b THEN a ELSE b

Max(a, b) == IF a > b THEN a ELSE b

\* sorted(S) for a finite set of integers.
RECURSIVE Sorted(_)
Sorted(S) ==
    IF S = {} THEN <<>>
    ELSE LET m == CHOOSE x \in S : \A y \in S : x <= y
         IN  <<m>> \o Sorted(S \ {m})

\* The slice as a bug would have it: names[i:j-1], which drops the last name
\* of every chunk.
Slice_short(names, i, j) ==
    [n \in 1..(Min(j - 1, Len(names)) - i) |-> names[i + n]]

\* names[i:j] with 0-based, end-exclusive Python indices.
Slice(names, i, j) ==
    [n \in 1..(Min(j, Len(names)) - i) |-> names[i + n]]

\* The bucket an attribute goes to when some attribute has a "page" entry:
\* page is <<>> when missing, <<p>> for an integer p, anything else otherwise.
Bucket(def) == IF Len(def.page) = 1 THEN def.page[1] ELSE OtherPagesBucket

\* A page is the list of its fields (title and help are display strings).
build_pages_from_kb(attributes, num_pages) ==
    LET names == Names(attributes)
        n == Len(names)
        has_page == \E i \in 1..n : attributes[i].def.page # <<>>
        ordered_pages == Sorted({Bucket(attributes[i].def) : i \in 1..n})
        InBucket(p, a) == Bucket(AttrDef(attributes, a)) = p
        chunk_size == Max(1, (n + num_pages - 1) \div num_pages)
        n_chunks == (n + chunk_size - 1) \div chunk_size
        chunks == [c \in 1..n_chunks |->
                      Slice(names, (c - 1) * chunk_size, c * chunk_size)]
    IN  IF n = 0 THEN << <<>> >>
        ELSE IF has_page
        THEN [p \in 1..Len(ordered_pages) |->
                 SelectSeq(names, LAMBDA a : InBucket(ordered_pages[p], a))]
        ELSE SubSeq(chunks, 1, Min(num_pages, n_chunks))

\* ------------------------------------------------------------------------
\* Widgets
\* ------------------------------------------------------------------------
\* ui maps an attribute to the state of its widget: <<>> when the last
\* script run did not render it, else <<[val, dflt, step]>>: the value it
\* returned, the default (index / value argument) it was built with and the
\* step of its key ui_<attr>_<step>. An input is what a script run receives
\* for a widget: Untouched when no form was submitted (or the widget was not
\* on screen), Kept when the form was submitted with the widget as it stood,
\* else the value the user picked or typed before submitting.
Untouched == "<untouched>"

Kept == "<kept>"

Texts == {"", "EU"}

NoWidgets(attributes) == [a \in NameSet(attributes) |-> <<>>]

\* The value a widget returns. A widget that was not on screen returns its
\* default. One that was returns the value the user entered, or else the
\* value it had; a build that identifies a widget by all its arguments (not by
\* its key alone) takes a changed default for a new widget and returns that.
WidgetValue(old, dflt, input, byKey) ==
    IF old = <<>> THEN dflt
    ELSE IF ~byKey /\ old[1].dflt # dflt THEN dflt
    ELSE IF input \notin {Untouched, Kept} THEN input
    ELSE old[1].val

\* The widget render_question builds for an attribute: its kind, its options
\* and the default it shows for the current fact.
WidgetKind(attr_def) ==
    LET q_type == IF attr_def.type = <<>> THEN "text" ELSE attr_def.type[1]
    IN  IF q_type = "bool" THEN "radio"
        ELSE IF q_type = "choice" /\ attr_def.options # <<>> THEN "selectbox"
        ELSE "text_input"

Range(seq) == {seq[i] : i \in 1..Len(seq)}

WidgetChoices(attr_def) ==
    CASE WidgetKind(attr_def) = "radio" -> {"No", "Yes"}
      [] WidgetKind(attr_def) = "selectbox" -> Range(attr_def.options)
      [] OTHER -> Texts

WidgetDefault(attr_def, current) ==
    CASE WidgetKind(attr_def) = "radio" ->
            IF current = None THEN "No"
            ELSE IF Truthy(current) THEN "Yes" ELSE "No"
      [] WidgetKind(attr_def) = "selectbox" ->
            IF current \in Range(attr_def.options) THEN current
            ELSE attr_def.options[1]
      [] OTHER -> IF current = None THEN "" ELSE Str(current)

AnswerValue(attr_def, val) ==
    CASE WidgetKind(attr_def) = "radio" ->
            IF val = "Yes" THEN PyTrue ELSE PyFalse
      [] WidgetKind(attr_def) = "selectbox" -> val
      [] OTHER -> IF val # "" THEN val ELSE None

\* The state of the widget with key ui_<attr_name>_<step_key>, if any.
WidgetState(old, attr_name, step_key) ==
    IF old[attr_name] # <<>> /\ old[attr_name][1].step = step_key
    THEN old[attr_name]
    ELSE <<>>

\* ------------------------------------------------------------------------
\* Wizard
\* ------------------------------------------------------------------------
\* A script run works on r = [step, facts, last_result, ui, asked, answered,
\* cleared, ...]: the session state, the widgets rendered so far in this run,
\* and the record of what was shown to the user (asked), what the user
\* submitted with the form (answered, pairs <<attribute, value>>) and which
\* facts the hide-and-clear step reset (cleared).

render_question(attr_name, attr_def, attributes, r, old, input, byKey) ==
    IF ~should_show(attr_name, attributes, r.facts)
    THEN [r EXCEPT !.facts = set_fact(@, attr_name, None),
                   !.cleared = @ \cup {attr_name}]
    ELSE LET current == get_fact(r.facts, attr_name)
             dflt == WidgetDefault(attr_def, current)
             shown == WidgetState(old, attr_name, r.step)
             val == WidgetValue(shown, dflt, input, byKey)
         IN  [r EXCEPT
                !.facts = set_fact(@, attr_name, AnswerValue(attr_def, val)),
                !.ui[attr_name] = <<[val |-> val, dflt |-> dflt, step |-> r.step]>>,
                !.asked = @ \cup {attr_name},
                !.answered = IF shown # <<>> /\ input # Untouched
                             THEN @ \cup {<<attr_name,
                                            IF input = Kept THEN shown[1].val
                                            ELSE input>>}
                             ELSE @]

\* The loop over the fields of the step's page, from field i on.
RECURSIVE RenderFields(_, _, _, _, _, _, _)
RenderFields(fields, i, attributes, r, old, inputs, byKey) ==
    IF i > Len(fields) THEN r
    ELSE RenderFields(fields, i + 1, attributes,
                      render_question(fields[i], AttrDef(attributes, fields[i]),
                                      attributes, r, old, inputs[fields[i]], byKey),
                      old, inputs, byKey)

\* facts_for_evaluation as a bug would have it: hidden questions kept.
facts_for_evaluation_all(attributes, fs) ==
    LET keep == {a \in NameSet(attributes) :
                    /\ get_fact(fs, a) # None
                    /\ get_fact(fs, a) # ""}
    IN  [a \in keep |-> get_fact(fs, a)]

facts_for_evaluation(attributes, fs) ==
    LET keep == {a \in NameSet(attributes) :
                    /\ should_show(a, attributes, fs)
                    /\ get_fact(fs, a) # None
                    /\ get_fact(fs, a) # ""}
    IN  [a \in keep |-> get_fact(fs, a)]

StepIdx(attributes, s) ==
    Max(0, Min(s, Len(build_pages_from_kb(attributes, NumPages)) - 1))

IsLastStep(attributes, s) ==
    StepIdx(attributes, s) = Len(build_pages_from_kb(attributes, NumPages)) - 1

\* The run record wizard starts from: the session state after init_state, no
\* widget rendered yet, nothing returned yet.
StartRun(attributes, s0, hist) ==
    [step |-> s0.step, facts |-> s0.facts, last_result |-> s0.last_result,
     ui |-> NoWidgets(attributes),
     asked |-> hist.asked, answered |-> hist.answered, cleared |-> hist.cleared,
     rerun |-> FALSE, result |-> <<>>, decision |-> <<>>]

\* The form of wizard as a bug would have it: the questions of every page
\* are rendered, not those of the step's page only.
RenderStep_every_page(attributes, r, old, inputs, byKey) ==
    RenderFields(Names(attributes), 1, attributes, r, old, inputs, byKey)

\* The form of wizard: render_question for every field of the step's page.
RenderStep(attributes, r, old, inputs, byKey) ==
    RenderFields(build_pages_from_kb(attributes, NumPages)
                     [StepIdx(attributes, r.step) + 1],
                 1, attributes, r, old, inputs, byKey)

\* The part of wizard after the form. button is the form button that was
\* pressed ("none", "back", "next" or "evaluate"); rerun records st.rerun(),
\* result the returned value (<<>> for None, else <<facts>>).
Buttons(attributes, r, button) ==
    LET total_steps == Len(build_pages_from_kb(attributes, NumPages))
        step_idx == StepIdx(attributes, r.step)
        is_last_step == (step_idx = total_steps - 1)
        back == (button = "back" /\ step_idx # 0)
        next_btn == (~is_last_step /\ button = "next")
        evaluate == (is_last_step /\ button = "evaluate")
    IN  IF back
        THEN [r EXCEPT !.step = Max(0, step_idx - 1), !.rerun = TRUE]
        ELSE IF ~is_last_step /\ next_btn
        THEN [r EXCEPT !.step = Min(total_steps - 1, step_idx + 1),
                       !.rerun = TRUE]
        ELSE IF is_last_step /\ evaluate
        THEN [r EXCEPT !.result = <<facts_for_evaluation(attributes, r.facts)>>]
        ELSE r

\* One run of wizard. store is st.session_state on entry (optional entries),
\* hist the record of the session so far.
wizard(attributes, store, hist, old, inputs, byKey, button) ==
    Buttons(attributes,
            RenderStep(attributes,
                       StartRun(attributes, init_state(attributes, store), hist),
                       old, inputs, byKey),
            button)

Stored(w) == [step |-> <<w.step>>, facts |-> <<w.facts>>,
              last_result |-> <<w.last_result>>]

AllUntouched(attributes) == [a \in NameSet(attributes) |-> Untouched]

\* After st.rerun() the script runs again, with no button pressed.
Rerun(attributes, first, byKey) ==
    IF first.rerun
    THEN wizard(attributes, Stored(first),
                [asked |-> first.asked, answered |-> first.answered,
                 cleared |-> first.cleared],
                first.ui, AllUntouched(attributes), byKey, "none")
    ELSE first

\* The end of app as a bug would have it: a rule is selected in every run,
\* from the session facts when wizard returned None.
Decide_always(k, last) ==
    [last EXCEPT !.decision =
        <<find_best_rule(k, IF last.result # <<>> THEN last.result[1]
                            ELSE last.facts)>>]

\* The end of app: a rule is selected when wizard returned facts.
Decide(k, last) ==
    IF last.result # <<>>
    THEN [last EXCEPT !.decision = <<find_best_rule(k, last.result[1])>>]
    ELSE last

\* One user event served by app: the script run it triggers and the run that
\* follows a st.rerun().
app(k, store, hist, old, inputs, byKey, button) ==
    Decide(k, Rerun(KbGet(k, "attributes"),
                    wizard(KbGet(k, "attributes"), store, hist, old, inputs,
                           byKey, button),
                    byKey))

\* ------------------------------------------------------------------------
\* Knowledge bases of the wizard sessions
\* ------------------------------------------------------------------------
NoConditions == [a \in {} |-> None]

ReviewDefault == [id |-> None, classification |-> "needs_review"]

\* One bool question, one rule on it.
KbBiometric ==
    [attributes |-> << <<Attr("uses_biometric", <<"bool">>, <<"Biometric?">>,
                            <<>>, NoDependsOn, <<>>)>> >>,
     derivation_rules |-> <<>>,
     rules |-> << <<Rule("high_risk", <<0>>, [uses_biometric |-> PyTrue],
                         "high")>> >>,
     default |-> <<ReviewDefault>>]

\* A derivation rule region = "EU" => gdpr_applicable = true, and a decision
\* rule on the derived fact; gdpr_applicable is declared, of type derived.
KbGdpr ==
    [attributes |-> << <<Attr("region", <<"choice">>, <<"Region?">>,
                            <<"US", "EU">>, NoDependsOn, <<>>),
                        Attr("gdpr_applicable", <<"derived">>, <<>>,
                            <<>>, NoDependsOn, <<>>)>> >>,
     derivation_rules |-> << <<[conditions |-> [region |-> "EU"],
                               asserts |-> [gdpr_applicable |-> PyTrue]]>> >>,
     rules |-> << <<Rule("gdpr", <<>>, [gdpr_applicable |-> PyTrue],
                         "regulated")>> >>,
     default |-> <<ReviewDefault>>]

\* The same rules, with gdpr_applicable not declared as an attribute and
\* region a free text.
KbGdprUndeclared ==
    [KbGdpr EXCEPT !.attributes =
        << <<Attr("region", <<"text">>, <<"Region?">>,
                  <<>>, NoDependsOn, <<>>)>> >>]

\* Three pages of one question each, each depending on the one before.
KbChain ==
    [attributes |-> << <<Attr("a", <<"bool">>, <<"A?">>, <<>>,
                            NoDependsOn, <<>>),
                        Attr("b", <<"bool">>, <<"B?">>, <<>>,
                            DependsOnDict(<< <<"a", PyTrue>> >>), <<>>),
                        Attr("c", <<"text">>, <<"C?">>, <<>>,
                            DependsOnList(<<KeyEquals("b", PyTrue)>>), <<>>)>> >>,
     derivation_rules |-> <<>>,
     rules |-> << <<Rule("c_given", <<1>>, [c |-> "EU"], "limited"),
                    Rule("not_a", <<>>, [a |-> PyFalse], "minimal"),
                    Rule("b_unset", <<2>>, [b |-> None], "unknown_b")>> >>,
     default |-> <<>>]

\* Explicit pages: a and its dependant b share page 1, t (a choice without
\* options, no question text) has a page entry that is not an integer.
KbPaged ==
    [attributes |-> << <<Attr("a", <<"bool">>, <<"A?">>, <<>>,
                            NoDependsOn, <<1>>),
                        Attr("b", <<"bool">>, <<"B?">>, <<>>,
                            DependsOnDict(<< <<"a", PyTrue>> >>), <<1>>),
                        Attr("t", <<"choice">>, <<>>, <<>>,
                            NoDependsOn, <<0, 0>>)>> >>,
     derivation_rules |-> <<>>,
     rules |-> << <<Rule("b_no", <<>>, [b |-> PyFalse], "low"),
                    Rule("any", <<-1>>, NoConditions, "catch_all")>> >>,
     default |-> <<ReviewDefault>>]

\* Three pages of one question each, each depending on the one after: c is
\* asked when b is true, b when a is true, and a comes last.
KbBackward ==
    [attributes |-> << <<Attr("c", <<"bool">>, <<"C?">>, <<>>,
                            DependsOnDict(<< <<"b", PyTrue>> >>), <<>>),
                        Attr("b", <<"bool">>, <<"B?">>, <<>>,
                            DependsOnDict(<< <<"a", PyTrue>> >>), <<>>),
                        Attr("a", <<"bool">>, <<"A?">>, <<>>,
                            NoDependsOn, <<>>)>> >>,
     derivation_rules |-> <<>>,
     rules |-> << <<Rule("c_no", <<>>, [c |-> PyFalse], "low")>> >>,
     default |-> <<ReviewDefault>>]

\* A document without attributes and rules.
KbEmpty ==
    [attributes |-> <<>>, derivation_rules |-> <<>>, rules |-> <<>>,
     default |-> <<>>]

\* A document with a default decision and nothing else.
KbDefaultOnly == [KbEmpty EXCEPT !.default = <<ReviewDefault>>]

WizardKbs == {KbBiometric, KbGdpr, KbGdprUndeclared, KbChain, KbPaged,
              KbBackward, KbEmpty, KbDefaultOnly}

\* ------------------------------------------------------------------------
\* Sessions
\* ------------------------------------------------------------------------
NoHistory == [asked |-> {}, answered |-> {}, cleared |-> {}]

\* The inputs a user can submit with the form on screen: something for the
\* widgets the last run rendered, nothing for the others.
FormInputs ==
    LET attributes == KbGet(kb, "attributes")
        Allowed(a) == IF ui[a] = <<>> THEN {Untouched}
                      ELSE {Kept} \cup WidgetChoices(AttrDef(attributes, a))
        All == UNION {Allowed(a) : a \in NameSet(attributes)}
    IN  {f \in [NameSet(attributes) -> All] :
            \A a \in NameSet(attributes) : f[a] \in Allowed(a)}

Session == [step |-> step, facts |-> facts, last_result |-> last_result]

Becomes(out, event) ==
    /\ step' = out.step
    /\ facts' = out.facts
    /\ last_result' = out.last_result
    /\ ui' = out.ui
    /\ evaluated' = out.result
    /\ decision' = out.decision
    /\ asked' = out.asked
    /\ answered' = out.answered
    /\ cleared' = out.cleared
    /\ lastEvent' = event
    /\ UNCHANGED <<kb, keyIdentity>>

\* The first script run of a new session on KB k.
FirstRun(k, byKey) ==
    app(k, NewSession, NoHistory, NoWidgets(KbGet(k, "attributes")),
        AllUntouched(KbGet(k, "attributes")), byKey, "none")

StartsAs(k, byKey, out) ==
    /\ kb = k
    /\ keyIdentity = byKey
    /\ step = out.step
    /\ facts = out.facts
    /\ last_result = out.last_result
    /\ ui = out.ui
    /\ evaluated = out.result
    /\ decision = out.decision
    /\ asked = out.asked
    /\ answered = out.answered
    /\ cleared = out.cleared
    /\ lastEvent = "load"

InitWith(k, byKey) == StartsAs(k, byKey, FirstRun(k, byKey))

Init == \E k \in WizardKbs, byKey \in BOOLEAN : InitWith(k, byKey)

\* The form is submitted with Back (enabled unless on the first step).
GoBack ==
    /\ StepIdx(KbGet(kb, "attributes"), step) # 0
    /\ \E inputs \in FormInputs :
          Becomes(app(kb, Stored(Session),
                      [asked |-> asked, answered |-> answered, cleared |-> {}],
                      ui, inputs, keyIdentity, "back"), "back")

\* The form is submitted with Next (shown unless on the last step).
GoNext ==
    /\ ~IsLastStep(KbGet(kb, "attributes"), step)
    /\ \E inputs \in FormInputs :
          Becomes(app(kb, Stored(Session),
                      [asked |-> asked, answered |-> answered, cleared |-> {}],
                      ui, inputs, keyIdentity, "next"), "next")

\* The form is submitted with Evaluate use case (shown on the last step).
Evaluate ==
    /\ IsLastStep(KbGet(kb, "attributes"), step)
    /\ \E inputs \in FormInputs :
          Becomes(app(kb, Stored(Session),
                      [asked |-> asked, answered |-> answered, cleared |-> {}],
                      ui, inputs, keyIdentity, "evaluate"), "evaluate")

\* Reset is clicked: the on_click callback reset_wizard runs, then the
\* script; the form is not submitted, so its widgets come back untouched.
Reset ==
    /\ lastEvent \in {"load", "back", "next", "evaluate", "reset"}
    /\ Becomes(app(kb, Stored(reset_wizard(KbGet(kb, "attributes"), Session)),
                   NoHistory, ui, AllUntouched(KbGet(kb, "attributes")),
                   keyIdentity, "none"), "reset")

Next == GoBack \/ GoNext \/ Evaluate \/ Reset

Spec == Init /\ [][Next]_vars

\* ------------------------------------------------------------------------
\* Rule selection on its own: every rule list and fact mapping within bounds
\* ------------------------------------------------------------------------
CondKeys == {"p", "q"}

Conditions == UNION {[D -> {PyTrue, PyFalse, None}] : D \in SUBSET CondKeys}

Priorities == {<<>>, <<-2>>}

RuleSet == {Rule("r", pr, c, "c") : pr \in Priorities, c \in Conditions}

RuleLists == UNION {[1..n -> RuleSet] : n \in 0..MaxRules}

\* What facts_for_evaluation can hand over: no None and no "" value.
FactMaps == UNION {[D -> {PyTrue, PyFalse}] : D \in SUBSET CondKeys}

InitRules ==
    \E rs \in RuleLists, d \in {<<>>, <<ReviewDefault>>} :
        InitWith([attributes |-> <<>>, derivation_rules |-> <<>>,
                  rules |-> <<rs>>, default |-> d], TRUE)

\* find_best_rule is applied to a fact mapping (it reads nothing but its
\* arguments, so one application per KB and mapping covers them all).
SelectRule ==
    \E fs \in FactMaps :
        /\ decision = <<>>
        /\ evaluated' = <<fs>>
        /\ decision' = <<find_best_rule(kb, fs)>>
        /\ lastEvent' = "select"
        /\ UNCHANGED <<kb, step, facts, last_result, ui, keyIdentity,
                       asked, answered, cleared>>

NextRules == SelectRule

SpecRules == InitRules /\ [][NextRules]_vars

\* ------------------------------------------------------------------------
\* Question visibility on its own: every depends_on and fact mapping within
\* bounds
\* ------------------------------------------------------------------------
DependsKeys == {"", "p"}

DependsValues == {PyTrue, PyFalse, None}

\* The (key, expected) pairs of a depends_on, in order; a JSON object has
\* each key once.
PairLists ==
    {ps \in UNION {[1..n -> DependsKeys \X DependsValues] :
                      n \in 0..Cardinality(DependsKeys)} :
        \A i, j \in 1..Len(ps) : ps[i][1] = ps[j][1] => i = j}

\* The same pairs as a list of {"key": k, "equals": v}.
AsList(ps) == [i \in 1..Len(ps) |-> KeyEquals(ps[i][1], ps[i][2])]

\* Attribute m depends on the pairs in mapping form, attribute l on the same
\* pairs in list form.
KbDepends(ps) ==
    [KbEmpty EXCEPT !.attributes =
        << <<Attr("m", <<"bool">>, <<"M?">>, <<>>, DependsOnDict(ps), <<>>),
             Attr("l", <<"bool">>, <<"L?">>, <<>>,
                  DependsOnList(AsList(ps)), <<>>)>> >>]

DependsFacts == UNION {[D -> DependsValues] : D \in SUBSET DependsKeys}

InitDepends ==
    \E ps \in PairLists, fs \in DependsFacts :
        /\ kb = KbDepends(ps)
        /\ facts = fs
        /\ step = 0
        /\ last_result = None
        /\ ui = NoWidgets(KbGet(kb, "attributes"))
        /\ keyIdentity = TRUE
        /\ evaluated = <<>>
        /\ decision = <<>>
        /\ asked = {}
        /\ answered = {}
        /\ cleared = {}
        /\ lastEvent = "load"

\* should_show is applied to every attribute: asked receives the attributes
\* it shows, cleared the ones it hides.
ShowQuestions ==
    /\ lastEvent = "load"
    /\ asked' = {a \in NameSet(KbGet(kb, "attributes")) :
                    should_show(a, KbGet(kb, "attributes"), facts)}
    /\ cleared' = {a \in NameSet(KbGet(kb, "attributes")) :
                      ~should_show(a, KbGet(kb, "attributes"), facts)}
    /\ lastEvent' = "show"
    /\ UNCHANGED <<kb, step, facts, last_result, ui, keyIdentity,
                   evaluated, decision, answered>>

NextDepends == ShowQuestions

SpecDepends == InitDepends /\ [][NextDepends]_vars

\* ------------------------------------------------------------------------
\* Page building on its own: every attribute count and page entries within
\* bounds
\* ------------------------------------------------------------------------
AttrNames == <<"a", "b", "c", "d", "e", "f", "g", "h", "i">>

\* The "page" entry of an attribute: missing, 1, 2, or not an integer.
PageHints == {<<>>, <<1>>, <<2>>, <<0, 0>>}

\* The page entries of n attributes: any up to MaxHinted attributes, none
\* beyond.
PageEntries(n) ==
    IF n <= MaxHinted THEN [1..n -> PageHints] ELSE {[i \in 1..n |-> <<>>]}

\* n text questions named in order, with the given page entries.
KbPages(n, hints) ==
    [KbEmpty EXCEPT !.attributes =
        <<[i \in 1..n |-> Attr(AttrNames[i], <<"text">>, <<"Q?">>, <<>>,
                               NoDependsOn, hints[i])]>>]

\* Before the first script run of a session: st.session_state is empty.
InitPages ==
    \E n \in 0..MaxAttrs :
        \E hints \in PageEntries(n) :
            /\ kb = KbPages(n, hints)
            /\ keyIdentity = TRUE
            /\ step = 0
            /\ facts = [a \in {} |-> None]
            /\ last_result = None
            /\ ui = NoWidgets(KbGet(kb, "attributes"))
            /\ evaluated = <<>>
            /\ decision = <<>>
            /\ asked = {}
            /\ answered = {}
            /\ cleared = {}
            /\ lastEvent = "new"

\* The first script run: wizard builds the pages and renders the first one.
LoadPage ==
    /\ lastEvent = "new"
    /\ Becomes(FirstRun(kb, keyIdentity), "load")

NextPages == LoadPage

SpecPages == InitPages /\ [][NextPages]_vars

\* ------------------------------------------------------------------------
\* Properties of rule selection (checked under SpecRules)
\* ------------------------------------------------------------------------
\* The reference notions the properties are stated with.
TheRules == KbGet(kb, "rules")

\* Every condition of rule i agrees with dict.get of the selected facts.
Matched(i) ==
    \A key \in DOMAIN TheRules[i].conditions :
        (IF key \in DOMAIN evaluated[1] THEN evaluated[1][key] ELSE None)
            = TheRules[i].conditions[key]

MatchedRules == {i \in 1..Len(TheRules) : Matched(i)}

Specificity(i) == Cardinality(DOMAIN TheRules[i].conditions)

Priority(i) == IF TheRules[i].priority = <<>> THEN 0 ELSE TheRules[i].priority[1]

\* (specificity, priority) of rule i is lexicographically >= that of rule j.
PairAtLeast(i, j) ==
    \/ Specificity(i) > Specificity(j)
    \/ Specificity(i) = Specificity(j) /\ Priority(i) >= Priority(j)

MaximalRules == {i \in MatchedRules : \A j \in MatchedRules : PairAtLeast(i, j)}

Selected == decision # <<>>

\* C1: whenever some rule is matched, find_best_rule returns a matched rule
\* whose (number of conditions, priority) pair is lexicographically greatest
\* among the matched rules; so more conditions win whatever the priorities.
C1_BestPairSelected ==
    (Selected /\ MatchedRules # {}) =>
        /\ decision[1].from = "rules"
        /\ decision[1].index \in MatchedRules
        /\ \A j \in MatchedRules : PairAtLeast(decision[1].index, j)

\* A rule with more conditions and a lower priority was chosen over a matched
\* rule with fewer conditions and a higher priority.
C1_Witness ==
    /\ Selected
    /\ decision[1].from = "rules"
    /\ \E j \in MatchedRules :
          /\ Specificity(j) < Specificity(decision[1].index)
          /\ Priority(j) > Priority(decision[1].index)

\* C2: when several matched rules share the maximal (specificity, priority)
\* pair, the one that comes first in the rule list is returned.
C2_FirstOfEqualsSelected ==
    (Selected /\ MaximalRules # {}) =>
        /\ decision[1].from = "rules"
        /\ decision[1].index \in MaximalRules
        /\ \A j \in MaximalRules : decision[1].index <= j

\* Two matched rules tie at the maximum and the earlier one was returned.
C2_Witness ==
    /\ Selected
    /\ Cardinality(MaximalRules) >= 2
    /\ decision[1].from = "rules"
    /\ \E j \in MaximalRules : decision[1].index < j

\* C3: the default is returned exactly when no rule is matched: the KB's
\* default payload unchanged, or {id: "default", classification:
\* "needs_review"} when the KB has none; any matched rule, also one with no
\* condition or a negative priority, is returned instead of the default.
C3_DefaultIffNoMatch ==
    Selected =>
        /\ (MatchedRules = {}) <=> (decision[1].from # "rules")
        /\ (MatchedRules = {} /\ kb.default # <<>>) =>
              /\ decision[1].from = "default"
              /\ decision[1].payload = kb.default[1]
        /\ (MatchedRules = {} /\ kb.default = <<>>) =>
              /\ decision[1].payload.id = "default"
              /\ decision[1].payload.classification = "needs_review"

\* The only matched rule has no condition and a negative priority, and it
\* was returned.
C3_Witness ==
    /\ Selected
    /\ decision[1].from = "rules"
    /\ MatchedRules = {decision[1].index}
    /\ Specificity(decision[1].index) = 0
    /\ Priority(decision[1].index) < 0

\* A condition of rule i whose key has a known value other than the expected.
Contradicted(i) ==
    \E key \in DOMAIN TheRules[i].conditions :
        /\ key \in DOMAIN evaluated[1]
        /\ evaluated[1][key] # TheRules[i].conditions[key]

\* C4: a rule with a condition whose key has a known value different from
\* the expected one is never returned, whatever its other conditions are.
C4_ContradictedNeverSelected ==
    (Selected /\ decision[1].from = "rules") => ~Contradicted(decision[1].index)

\* A rule with one condition contradicted and its other condition true was
\* scanned, and a selection was made.
C4_Witness ==
    /\ Selected
    /\ \E i \in 1..Len(TheRules) :
          /\ Contradicted(i)
          /\ \E key \in DOMAIN TheRules[i].conditions :
                /\ key \in DOMAIN evaluated[1]
                /\ evaluated[1][key] = TheRules[i].conditions[key]

\* C5: a rule with a condition on a key that is absent from the facts is
\* never returned, whatever the expected value is (null included).
C5_UnknownNeverSatisfies ==
    (Selected /\ decision[1].from = "rules") =>
        \A key \in DOMAIN TheRules[decision[1].index].conditions :
            key \in DOMAIN evaluated[1]

\* ------------------------------------------------------------------------
\* Properties of the wizard sessions (checked under Spec)
\* ------------------------------------------------------------------------
TheAttributes == KbGet(kb, "attributes")

IsDerived(a) == AttrDef(TheAttributes, a).type = <<"derived">>

IsBool(a) == AttrDef(TheAttributes, a).type = <<"bool">>

HasQuestion(a) == AttrDef(TheAttributes, a).question # <<>>

\* A fact value that is present: neither None nor empty.
Present(v) == v \notin {None, ""}

\* C6: with the derivation rule region = "EU" => gdpr_applicable = true and
\* the decision rule gdpr_applicable = true => "regulated", an evaluation
\* after the user set region = "EU" gives "regulated", and the user was never
\* asked about gdpr_applicable.
C6_DerivedFactReachesDecision ==
    (/\ kb \in {KbGdpr, KbGdprUndeclared}
     /\ evaluated # <<>>
     /\ DictGet(evaluated[1], "region") = "EU") =>
        /\ decision[1].payload.classification = "regulated"
        /\ "gdpr_applicable" \notin asked

\* C7: no attribute of type derived and no attribute without a question
\* prompt is ever shown as a question or answered by the user.
C7_OnlyAskableAsked ==
    /\ \A a \in asked : ~IsDerived(a) /\ HasQuestion(a)
    /\ \A p \in answered : ~IsDerived(p[1]) /\ HasQuestion(p[1])

\* C8: a fact with a present value becomes absent only by a reset or by the
\* hide-and-clear step of a question whose depends_on no longer holds.
C8_FactsMonotone ==
    [][\A a \in DOMAIN facts :
          (Present(facts[a]) /\ ~Present(facts'[a])) =>
              (lastEvent' = "reset" \/ a \in cleared')]_vars

\* C9: in the evaluated facts a bool attribute is false only if the user
\* answered No to it (submitted its question with No selected); a bool
\* attribute the user never answered is absent.
C9_FalseOnlyIfAnsweredNo ==
    evaluated # <<>> =>
        \A a \in DOMAIN evaluated[1] :
            (IsBool(a) /\ evaluated[1][a] = PyFalse) => <<a, "No">> \in answered

SameSession(new) ==
    /\ step = new.step
    /\ facts = new.facts
    /\ last_result = new.last_result
    /\ ui = new.ui

\* C10: after a reset the session (step, facts, last result) and the page
\* shown are those of a brand-new session on the same KB: no earlier answer
\* is carried over.
C10_ResetRestoresInitial ==
    lastEvent = "reset" => SameSession(FirstRun(kb, keyIdentity))

\* A KB document without the top-level entries attributes and rules.
NoAttributesNoRules == kb.attributes = <<>> /\ kb.rules = <<>>

\* C11: a session on a KB document without attributes and rules never shows
\* or receives an answer to a question, every script run completes on the
\* single empty page, and every evaluation hands over no fact and returns the
\* default decision: the KB's default entry, or the literal
\* {id: "default", classification: "needs_review"} when there is none.
C11_EmptyKbAlwaysDefault ==
    NoAttributesNoRules =>
        /\ asked = {} /\ answered = {}
        /\ step = 0 /\ DOMAIN facts = {}
        /\ (lastEvent = "evaluate") =>
              /\ evaluated # <<>> /\ DOMAIN evaluated[1] = {}
              /\ decision # <<>>
              /\ decision[1].from # "rules"
              /\ kb.default # <<>> => decision[1].payload = kb.default[1]
              /\ kb.default = <<>> =>
                    /\ decision[1].payload.id = "default"
                    /\ decision[1].payload.classification = "needs_review"

\* Evaluate was pressed on a document that has no top-level entry at all.
C11_Witness ==
    /\ NoAttributesNoRules
    /\ kb.default = <<>>
    /\ lastEvent = "evaluate"
    /\ decision # <<>>

\* ------------------------------------------------------------------------
\* Properties of question visibility (checked under SpecDepends)
\* ------------------------------------------------------------------------
\* The pairs attribute m depends on (attribute l lists the same pairs).
ThePairs == AttrDef(TheAttributes, "m").depends_on.items

\* Every pair has its key in the facts, with the expected value.
AllPairsHold ==
    \A i \in 1..Len(ThePairs) :
        /\ ThePairs[i][1] \in DOMAIN facts
        /\ facts[ThePairs[i][1]] = ThePairs[i][2]

\* C12: a question is shown exactly when its depends_on is empty or every
\* (key, expected) pair has its key in the facts with the expected value (a
\* pair whose key is not in the facts hides it), and this is so for the
\* mapping form and for the list form of the same pairs alike.
C12_ShownIffAllPairsHold ==
    lastEvent = "show" =>
        /\ "m" \in asked <=> AllPairsHold
        /\ "l" \in asked <=> AllPairsHold

\* The (key, expected) pairs attribute a depends on, in either form.
DependsPairs(a) ==
    LET d == AttrDef(TheAttributes, a).depends_on
    IN  IF d.form = "dict" THEN {<<d.items[i][1], d.items[i][2]>> :
                                    i \in 1..Len(d.items)}
        ELSE IF d.form = "list"
        THEN {<<d.items[i].key[1], d.items[i].equals[1]>> :
                 i \in 1..Len(d.items)}
        ELSE {}

\* Attribute a is visible for the fact mapping fs: all it depends on holds.
VisibleIn(a, fs) ==
    \A p \in DependsPairs(a) : p[1] \in DOMAIN fs /\ fs[p[1]] = p[2]

\* C13: the mapping handed to rule selection by Evaluate has as keys exactly
\* the KB attributes that are visible for the session facts and whose fact
\* is neither None nor "", each with the value of its session fact.
C13_EvaluatedAreVisiblePresent ==
    lastEvent = "evaluate" =>
        /\ evaluated # <<>>
        /\ DOMAIN evaluated[1] =
              {a \in NameSet(TheAttributes) :
                  VisibleIn(a, facts) /\ Present(facts[a])}
        /\ \A a \in DOMAIN evaluated[1] : evaluated[1][a] = facts[a]

\* At an evaluation one fact was handed over and another attribute, hidden,
\* was left out although its fact has a value.
C13_Witness ==
    /\ lastEvent = "evaluate"
    /\ evaluated # <<>>
    /\ DOMAIN evaluated[1] # {}
    /\ \E a \in DOMAIN facts :
          Present(facts[a]) /\ a \notin DOMAIN evaluated[1]

\* C14: at every evaluation, every attribute in the evaluated facts has each
\* key it depends on in the evaluated facts too, with the required value: no
\* answer to a hidden question reaches the rules or keeps another question
\* visible.
C14_NoStaleFactEvaluated ==
    evaluated # <<>> =>
        \A a \in DOMAIN evaluated[1] :
            \A p \in DependsPairs(a) :
                /\ p[1] \in DOMAIN evaluated[1]
                /\ evaluated[1][p[1]] = p[2]

TotalSteps == Len(build_pages_from_kb(TheAttributes, NumPages))

\* The step the handler leaves when the form on screen is submitted with the
\* given button (also one that is disabled or not shown on this step).
StepAfter(button) ==
    Buttons(TheAttributes,
            StartRun(TheAttributes, init_state(TheAttributes, Stored(Session)),
                     NoHistory),
            button).step

\* C15: the step index is always within 0 .. total_steps - 1; Back moves it
\* down by exactly one and Next up by exactly one, except that Back on the
\* first step and Next on the last step leave it unchanged; Evaluate leaves
\* it unchanged and Reset sets it to 0.
C15_StepWithinPages ==
    /\ [](/\ step \in 0..(TotalSteps - 1)
          /\ StepAfter("back") = (IF step = 0 THEN 0 ELSE step - 1)
          /\ StepAfter("next") =
                (IF step = TotalSteps - 1 THEN step ELSE step + 1))
    /\ [][/\ lastEvent' = "back" => step' = step - 1
          /\ lastEvent' = "next" => step' = step + 1
          /\ lastEvent' = "evaluate" => step' = step
          /\ lastEvent' = "reset" => step' = 0]_vars

\* On a KB of three pages the user came back to the first page with Back.
C15_Witness ==
    /\ TotalSteps = 3
    /\ step = 0
    /\ lastEvent = "back"

\* What wizard returns when the form on screen is submitted with the given
\* button (also one that is not shown on this step): <<>> for None.
ResultAfter(button) ==
    Buttons(TheAttributes,
            StartRun(TheAttributes, init_state(TheAttributes, Stored(Session)),
                     NoHistory),
            button).result

\* C16: wizard returns a fact mapping, and app selects a rule, exactly in the
\* script run of an Evaluate event, which happens on the last step; in the
\* runs of a page load, Back, Next and Reset wizard returns None and no
\* decision is computed, and on a step that is not the last one no button
\* makes wizard return a mapping.
C16_DecisionOnlyOnEvaluate ==
    /\ evaluated # <<>> <=> lastEvent = "evaluate"
    /\ decision # <<>> <=> evaluated # <<>>
    /\ evaluated # <<>> => step = TotalSteps - 1
    /\ step # TotalSteps - 1 =>
          \A button \in {"none", "back", "next", "evaluate"} :
              ResultAfter(button) = <<>>
    /\ \A button \in {"none", "back", "next"} : ResultAfter(button) = <<>>

\* A decision was computed by Evaluate on the last of three pages.
C16_Witness ==
    /\ TotalSteps = 3
    /\ step = 2
    /\ lastEvent = "evaluate"
    /\ decision # <<>>
    /\ evaluated # <<>>

\* The attributes on the page of step s.
OnPage(s) ==
    Range(build_pages_from_kb(TheAttributes, NumPages)
              [StepIdx(TheAttributes, s) + 1])

\* C17: a Back, Next or Evaluate event changes the facts of no attribute
\* other than those on the page it was submitted from and those on the page
\* it shows next (the two pages it renders); and an attribute of the page
\* it moves to keeps the value it had, unless it is hidden and cleared
\* there: answers given on a page are still there when the user returns to
\* it or evaluates.
C17_OtherPagesUnchanged ==
    [][lastEvent' \in {"back", "next", "evaluate"} =>
          \A a \in DOMAIN facts :
              /\ a \notin (OnPage(step) \cup OnPage(step')) =>
                    facts'[a] = facts[a]
              /\ (a \notin OnPage(step) /\ Present(facts[a])
                    /\ a \notin cleared') => facts'[a] = facts[a]]_vars

\* After Next to the third page the answer Yes given on the first page is
\* still in the facts.
C17_Witness ==
    /\ lastEvent = "next"
    /\ step = 2
    /\ \E a \in DOMAIN facts :
          /\ a \in OnPage(0)
          /\ a \notin OnPage(2)
          /\ <<a, "Yes">> \in answered
          /\ facts[a] = PyTrue

\* ------------------------------------------------------------------------
\* Properties of page building (checked under SpecPages)
\* ------------------------------------------------------------------------
ThePages == build_pages_from_kb(TheAttributes, NumPages)

\* The fields of all pages, page after page.
RECURSIVE AllFields(_)
AllFields(p) == IF p > Len(ThePages) THEN <<>>
                ELSE ThePages[p] \o AllFields(p + 1)

\* The places (page, position) where attribute a is a field.
PlacesOf(a) ==
    {pl \in (1..Len(ThePages)) \X (1..Len(TheAttributes)) :
        pl[2] <= Len(ThePages[pl[1]]) /\ ThePages[pl[1]][pl[2]] = a}

NoPageEntry == \A i \in 1..Len(TheAttributes) : TheAttributes[i].def.page = <<>>

\* C18: for an empty attribute map build_pages_from_kb returns exactly one
\* page without fields; otherwise every attribute is a field of exactly one
\* page, at one place, every field is an attribute, no page is empty, and
\* when no attribute has a page entry the fields, page after page, are the
\* attributes in KB order on at most num_pages pages. The first script run
\* shows the fields of the first page.
C18_PagesPartitionAttributes ==
    /\ TheAttributes = <<>> => ThePages = << <<>> >>
    /\ TheAttributes # <<>> =>
          /\ \A a \in NameSet(TheAttributes) : Cardinality(PlacesOf(a)) = 1
          /\ Range(AllFields(1)) \subseteq NameSet(TheAttributes)
          /\ \A p \in 1..Len(ThePages) : ThePages[p] # <<>>
          /\ NoPageEntry =>
                /\ AllFields(1) = Names(TheAttributes)
                /\ Len(ThePages) <= NumPages
    /\ lastEvent = "load" => asked = Range(ThePages[1])

\* The first run of a session on seven attributes without page entries:
\* three pages, the last one shorter than the others.
C18_Witness ==
    /\ lastEvent = "load"
    /\ Len(TheAttributes) = 7
    /\ NoPageEntry
    /\ Len(ThePages) = 3
    /\ Len(ThePages[3]) < Len(ThePages[1])

====
